---------------------------- MODULE Spec2Model ----------------------------
(***************************************************************************)
(* A model of src/misc/utils.rs of rusp: linspace, linspace_repeated,      *)
(* arange, reverse and concatenate.                                        *)
(*                                                                         *)
(* Floating point.  The functions of the linspace family compute in f64.   *)
(* An f64 is modelled as a binary floating-point number with round to      *)
(* nearest, ties to even, and with +-inf and NaN, exactly as IEEE 754      *)
(* prescribes, but with a significand of Precision bits instead of 53 and  *)
(* an unbounded exponent (the inputs are small, so no operation comes near *)
(* the overflow or underflow threshold of f64).  A finite value is the     *)
(* exact dyadic rational n/d in lowest terms; the sign of a zero, which    *)
(* `==` on f64 cannot observe and which no divisor of the code can carry,  *)
(* is not modelled.                                                        *)
(*                                                                         *)
(* Integers.  arange computes in i32; the model keeps the 32-bit width and *)
(* draws the inputs from the neighbourhoods of 0, i32::MIN and i32::MAX.   *)
(* `current += step` panics on overflow when the crate is built with       *)
(* overflow checks (the dev profile) and wraps otherwise (the release      *)
(* profile); the build is a nondeterministic choice of Init.               *)
(***************************************************************************)
EXTENDS Integers, Sequences, FiniteSets, TLC

VARIABLES fn, pc, args, overflow_checks, step, current, values

vars == <<fn, pc, args, overflow_checks, step, current, values>>

(***************************************************************************)
(* Bounds of the model.                                                    *)
(***************************************************************************)
Precision == 6      \* bits of the significand of the modelled f64
MaxSamples == 5     \* largest sample count drawn
MaxRepeats == 2     \* largest repeat count drawn
InputSpan == 2      \* i32 inputs lie within InputSpan of 0, MIN or MAX
MaxIter == 5        \* iterations of arange's loop that are followed
MaxSeqLen == 2      \* longest input sequence of concatenate
MaxRevLen == 4      \* longest input sequence of reverse

(***************************************************************************)
(* i32                                                                     *)
(***************************************************************************)
I32_MAX == 2147483647
I32_MIN == -I32_MAX - 1

Abs(x) == IF x < 0 THEN -x ELSE x

RECURSIVE Pow2(_)
Pow2(k) == IF k = 0 THEN 1 ELSE 2 * Pow2(k - 1)

(***************************************************************************)
(* f64: the values                                                         *)
(***************************************************************************)
NaN == [k |-> "nan", n |-> 0, d |-> 0]
Inf(sign) == [k |-> "inf", n |-> sign, d |-> 0]
Unevaluated == [k |-> "unevaluated", n |-> 0, d |-> 0]

\* The dyadic rational n/d (d a power of two) in lowest terms.
RECURSIVE Fin(_, _)
Fin(n, d) ==
  IF n = 0 THEN [k |-> "fin", n |-> 0, d |-> 1]
  ELSE IF d > 1 /\ n % 2 = 0 THEN Fin(n \div 2, d \div 2)
  ELSE [k |-> "fin", n |-> n, d |-> d]

IsFinite(x) == x.k = "fin"
Sign(i) == IF i < 0 THEN -1 ELSE 1

\* Scale num/den (both positive) into [2^(Precision-1), 2^Precision): the
\* result is <<num * 2^i, den * 2^j, 2^i, 2^j>>.
RECURSIVE Scale(_, _, _, _)
Scale(num, den, up, down) ==
  IF num >= den * Pow2(Precision) THEN Scale(num, den * 2, up, down * 2)
  ELSE IF num < den * Pow2(Precision - 1) THEN Scale(num * 2, den, up * 2, down)
  ELSE <<num, den, up, down>>

\* Round to nearest, ties to even: the f64 nearest to the rational n/d, d > 0.
RoundRat(n, d) ==
  IF n = 0 THEN Fin(0, 1)
  ELSE LET s == Scale(Abs(n), d, 1, 1)
           q == s[1] \div s[2]
           r == s[1] % s[2]
           m == IF 2 * r > s[2] \/ (2 * r = s[2] /\ q % 2 = 1) THEN q + 1 ELSE q
       IN  Fin(Sign(n) * m * s[4], s[3])

(***************************************************************************)
(* f64: the operations the code uses                                       *)
(***************************************************************************)
\* x + y
FAdd(x, y) ==
  IF x.k = "nan" \/ y.k = "nan" THEN NaN
  ELSE IF x.k = "inf" /\ y.k = "inf" THEN IF x.n = y.n THEN x ELSE NaN
  ELSE IF x.k = "inf" THEN x
  ELSE IF y.k = "inf" THEN y
  ELSE RoundRat(x.n * y.d + y.n * x.d, x.d * y.d)

\* -x
FNeg(x) == IF x.k = "nan" THEN NaN ELSE [x EXCEPT !.n = -x.n]

\* x - y
FSub(x, y) == FAdd(x, FNeg(y))

\* x / y: a zero divisor gives +-inf, or NaN for 0/0; it never traps.
FDiv(x, y) ==
  IF x.k = "nan" \/ y.k = "nan" THEN NaN
  ELSE IF x.k = "inf" THEN IF y.k = "inf" THEN NaN ELSE Inf(x.n * Sign(y.n))
  ELSE IF y.k = "inf" THEN Fin(0, 1)
  ELSE IF y.n = 0 THEN IF x.n = 0 THEN NaN ELSE Inf(Sign(x.n))
  ELSE RoundRat(Sign(y.n) * x.n * y.d, x.d * Abs(y.n))

\* x == y on f64: NaN equals nothing.
FEq(x, y) == x.k # "nan" /\ y.k # "nan" /\ x = y

\* `samples as f64`
usize_as_f64(i) == RoundRat(i, 1)

\* T::to_f64: the f64 nearest to the number (the number itself when the format
\* holds it, as it does every f64 and every i32).
to_f64(x) == IF x.k = "fin" THEN RoundRat(x.n, x.d) ELSE x

(***************************************************************************)
(* linspace                                                                *)
(***************************************************************************)
NoSamples_AtMostOne(samples) == samples <= 1

\* `if samples == 0 { return Vec::new(); }`
NoSamples(samples) == samples = 0

LinspaceStep_AlwaysInclusive(span, samples, include_end) ==
  FDiv(span, FSub(usize_as_f64(samples), Fin(1, 1)))

\* `let step = if include_end { span / (samples as f64 - 1.0) }
\*             else { span / (samples as f64) };`
LinspaceStep(span, samples, include_end) ==
  IF include_end
    THEN FDiv(span, FSub(usize_as_f64(samples), Fin(1, 1)))
    ELSE FDiv(span, usize_as_f64(samples))

\* `for _ in 0..count { values.push(current); current += step; }`
RECURSIVE Accumulate(_, _, _, _)
Accumulate(vals, cur, stp, count) ==
  IF count = 0 THEN vals
  ELSE Accumulate(Append(vals, cur), FAdd(cur, stp), stp, count - 1)

SnapLast_Never(vals, stop_f, include_end) == vals

\* `if include_end { *values.last_mut().unwrap() = stop_f; }`
SnapLast(vals, stop_f, include_end) ==
  IF include_end THEN [vals EXCEPT ![Len(vals)] = stop_f] ELSE vals

\* linspace(start, stop, samples, include_end): the vector returned and the
\* step computed on the way (Unevaluated on the early return).
linspace(start, stop, samples, include_end) ==
  IF NoSamples(samples) THEN [values |-> <<>>, step |-> Unevaluated]
  ELSE LET start_f == to_f64(start)
           stop_f == to_f64(stop)
           span == FSub(stop_f, start_f)
           stp == LinspaceStep(span, samples, include_end)
           vals == Accumulate(<<>>, start_f, stp, samples)
       IN  [values |-> SnapLast(vals, stop_f, include_end), step |-> stp]

(***************************************************************************)
(* linspace_repeated                                                       *)
(***************************************************************************)
NothingToRepeat_SamplesOnly(samples, repeats) == samples = 0

\* `if samples == 0 || repeats == 0 { return Vec::new(); }`
NothingToRepeat(samples, repeats) == samples = 0 \/ repeats = 0

RepeatedStep_Exclusive(span, samples) == FDiv(span, usize_as_f64(samples))

\* `let step = span / (samples as f64 - 1.0);`
RepeatedStep(span, samples) == FDiv(span, FSub(usize_as_f64(samples), Fin(1, 1)))

\* `for _ in 0..repeats { result.extend_from_slice(&sequence); }`
RECURSIVE Tile(_, _, _)
Tile(result, sequence, repeats) ==
  IF repeats = 0 THEN result ELSE Tile(result \o sequence, sequence, repeats - 1)

linspace_repeated(start, stop, samples, repeats) ==
  IF NothingToRepeat(samples, repeats) THEN [values |-> <<>>, step |-> Unevaluated]
  ELSE LET start_f == to_f64(start)
           stop_f == to_f64(stop)
           span == FSub(stop_f, start_f)
           stp == RepeatedStep(span, samples)
           sequence == Accumulate(<<>>, start_f, stp, samples)
       IN  [values |-> Tile(<<>>, sequence, repeats), step |-> stp]

(***************************************************************************)
(* arange                                                                  *)
(***************************************************************************)
StepIsValid_NoAssert(stp) == TRUE

\* `assert!(step != 0, "Step size cannot be zero")`
StepIsValid(stp) == stp # 0

\* Whether cur + stp leaves the range of i32.
Overflows(cur, stp) ==
  IF stp > 0 THEN cur > I32_MAX - stp
  ELSE IF stp < 0 THEN cur < I32_MIN - stp
  ELSE FALSE

\* cur + stp modulo 2^32, as a two's complement i32.
WrappingAdd(cur, stp) ==
  IF ~Overflows(cur, stp) THEN cur + stp
  ELSE IF stp > 0 THEN (cur + I32_MIN) + (stp + I32_MIN)
  ELSE (cur - I32_MIN) + (stp - I32_MIN)

\* `while current < stop` (step > 0) and `while current > stop` (step < 0)
LoopCondPos(cur, stop) == cur < stop
LoopCondNeg(cur, stop) == cur > stop

(***************************************************************************)
(* reverse and concatenate                                                 *)
(***************************************************************************)
\* `arr.to_vec()`: a copy of the slice.
to_vec(arr) == [i \in 1..Len(arr) |-> arr[i]]

\* slice::reverse: swaps element i with element len-1-i for i < len/2
\* (positions counted from 1 here).
RECURSIVE SwapFrom_StopsEarly(_, _)
SwapFrom_StopsEarly(v, i) ==
  IF i >= Len(v) \div 2 THEN v
  ELSE SwapFrom_StopsEarly([v EXCEPT ![i] = v[Len(v) + 1 - i], ![Len(v) + 1 - i] = v[i]], i + 1)

RECURSIVE SwapFrom(_, _)
SwapFrom(v, i) ==
  IF i > Len(v) \div 2 THEN v
  ELSE SwapFrom([v EXCEPT ![i] = v[Len(v) + 1 - i], ![Len(v) + 1 - i] = v[i]], i + 1)

reverse(arr) ==
  LET reversed == to_vec(arr)
  IN  SwapFrom(reversed, 1)

\* Vec::extend_from_slice: pushes the elements of the slice in order.
RECURSIVE extend_from_slice(_, _)
extend_from_slice(out, slice) ==
  IF slice = <<>> THEN out
  ELSE extend_from_slice(Append(out, Head(slice)), Tail(slice))

concatenate_SecondFirst(arr1, arr2) ==
  LET out0 == <<>>
      out1 == extend_from_slice(out0, arr2)
  IN  extend_from_slice(out1, arr1)

concatenate(arr1, arr2) ==
  LET out0 == <<>>
      out1 == extend_from_slice(out0, arr1)
  IN  extend_from_slice(out1, arr2)

(***************************************************************************)
(* The inputs drawn                                                        *)
(***************************************************************************)
\* Finite numeric arguments of type T, among them those of the crate's tests.
FloatInputs ==
  {Fin(0, 1), Fin(1, 1), Fin(3, 2), Fin(3, 1), Fin(5, 1), Fin(10, 1),
   Fin(-2, 1), Fin(66, 1), Fin(68, 1)}

\* i32 arguments near 0 and near both ends of the range.
I32Inputs ==
  (-InputSpan .. InputSpan)
    \cup {I32_MIN + i : i \in 0..InputSpan}
    \cup {I32_MAX - i : i \in 0..InputSpan}

Elems == {1, 2, 3}

RECURSIVE SeqsUpTo(_)
SeqsUpTo(len) ==
  IF len = 0 THEN {<<>>}
  ELSE LET shorter == SeqsUpTo(len - 1)
       IN  shorter \cup {Append(s, e) : s \in {t \in shorter : Len(t) = len - 1}, e \in Elems}

NoArgs == [start |-> 0, stop |-> 0, step |-> 0, samples |-> 0, repeats |-> 0,
           include_end |-> FALSE, arr1 |-> <<>>, arr2 |-> <<>>, arr3 |-> <<>>]

(***************************************************************************)
(* The calls of linspace and linspace_repeated                             *)
(***************************************************************************)
InitLinspace ==
  /\ fn \in {"linspace", "linspace_repeated"}
  /\ pc = "entry"
  /\ \E a \in FloatInputs, b \in FloatInputs, n \in 0..MaxSamples :
       \/ /\ fn = "linspace"
          /\ \E e \in BOOLEAN :
               args = [NoArgs EXCEPT !.start = a, !.stop = b, !.samples = n,
                                     !.include_end = e]
       \/ /\ fn = "linspace_repeated"
          /\ \E r \in 0..MaxRepeats :
               args = [NoArgs EXCEPT !.start = a, !.stop = b, !.samples = n,
                                     !.repeats = r]
  /\ overflow_checks = FALSE
  /\ step = Unevaluated
  /\ current = 0
  /\ values = <<>>

LinspaceCall ==
  /\ fn = "linspace" /\ pc = "entry"
  /\ LET r == linspace(args.start, args.stop, args.samples, args.include_end)
     IN  values' = r.values /\ step' = r.step
  /\ pc' = "done"
  /\ UNCHANGED <<fn, args, overflow_checks, current>>

LinspaceRepeatedCall ==
  /\ fn = "linspace_repeated" /\ pc = "entry"
  /\ LET r == linspace_repeated(args.start, args.stop, args.samples, args.repeats)
     IN  values' = r.values /\ step' = r.step
  /\ pc' = "done"
  /\ UNCHANGED <<fn, args, overflow_checks, current>>

NextLinspace == LinspaceCall \/ LinspaceRepeatedCall

SpecLinspace == InitLinspace /\ [][NextLinspace]_vars

(***************************************************************************)
(* The call of arange, one loop iteration at a time                        *)
(***************************************************************************)
InitArange ==
  /\ fn = "arange"
  /\ pc = "entry"
  /\ \E a \in I32Inputs, b \in I32Inputs, s \in I32Inputs :
       args = [NoArgs EXCEPT !.start = a, !.stop = b, !.step = s]
  /\ overflow_checks \in BOOLEAN
  /\ step = Unevaluated
  /\ current = 0
  /\ values = <<>>

\* The assertion, then `let mut values = Vec::new(); let mut current = start;`
ArangeEnter ==
  /\ fn = "arange" /\ pc = "entry"
  /\ IF StepIsValid(args.step)
       THEN pc' = "loop" /\ current' = args.start
       ELSE pc' = "panic_zero_step" /\ UNCHANGED current
  /\ UNCHANGED <<fn, args, overflow_checks, step, values>>

\* `values.push(current); current += step;`
ArangeBody ==
  /\ values' = Append(values, current)
  /\ IF Overflows(current, args.step) /\ overflow_checks
       THEN pc' = "panic_overflow" /\ UNCHANGED current
       ELSE pc' = "loop" /\ current' = WrappingAdd(current, args.step)
  /\ UNCHANGED <<fn, args, overflow_checks, step>>

ArangeLoopPos ==
  /\ fn = "arange" /\ pc = "loop" /\ args.step > 0
  /\ LoopCondPos(current, args.stop)
  /\ Len(values) < MaxIter
  /\ ArangeBody

ArangeLoopNeg ==
  /\ fn = "arange" /\ pc = "loop" /\ ~(args.step > 0)
  /\ LoopCondNeg(current, args.stop)
  /\ Len(values) < MaxIter
  /\ ArangeBody

ArangeReturn ==
  /\ fn = "arange" /\ pc = "loop"
  /\ IF args.step > 0 THEN ~LoopCondPos(current, args.stop)
                      ELSE ~LoopCondNeg(current, args.stop)
  /\ pc' = "done"
  /\ UNCHANGED <<fn, args, overflow_checks, step, current, values>>

NextArange == ArangeEnter \/ ArangeLoopPos \/ ArangeLoopNeg \/ ArangeReturn

SpecArange == InitArange /\ [][NextArange]_vars

(***************************************************************************)
(* The calls of reverse and concatenate                                    *)
(***************************************************************************)
InitSeq ==
  /\ fn \in {"reverse", "concatenate"}
  /\ pc = "entry"
  /\ \/ /\ fn = "reverse"
        /\ \E a \in SeqsUpTo(MaxRevLen) : args = [NoArgs EXCEPT !.arr1 = a]
     \/ /\ fn = "concatenate"
        /\ \E a \in SeqsUpTo(MaxSeqLen), b \in SeqsUpTo(MaxSeqLen), c \in SeqsUpTo(MaxSeqLen) :
             args = [NoArgs EXCEPT !.arr1 = a, !.arr2 = b, !.arr3 = c]
  /\ overflow_checks = FALSE
  /\ step = Unevaluated
  /\ current = <<>>
  /\ values = <<>>

\* reverse(&arr1)
ReverseCall ==
  /\ fn = "reverse" /\ pc = "entry"
  /\ values' = reverse(args.arr1)
  /\ pc' = "done"
  /\ UNCHANGED <<fn, args, overflow_checks, step, current>>

\* reverse(&result) of the result of the first call
ReverseAgainCall ==
  /\ fn = "reverse" /\ pc = "done"
  /\ current' = reverse(values)
  /\ pc' = "done2"
  /\ UNCHANGED <<fn, args, overflow_checks, step, values>>

\* concatenate(&arr1, &arr2)
ConcatenateCall ==
  /\ fn = "concatenate" /\ pc = "entry"
  /\ values' = concatenate(args.arr1, args.arr2)
  /\ pc' = "done"
  /\ UNCHANGED <<fn, args, overflow_checks, step, current>>

\* concatenate(&result, &arr3) of the result of the first call, and
\* concatenate(&arr1, &concatenate(&arr2, &arr3))
ConcatenateNestedCalls ==
  /\ fn = "concatenate" /\ pc = "done"
  /\ values' = concatenate(values, args.arr3)
  /\ current' = concatenate(args.arr1, concatenate(args.arr2, args.arr3))
  /\ pc' = "done2"
  /\ UNCHANGED <<fn, args, overflow_checks, step>>

NextSeq == ReverseCall \/ ReverseAgainCall \/ ConcatenateCall \/ ConcatenateNestedCalls

SpecSeq == InitSeq /\ [][NextSeq]_vars

(***************************************************************************)
(* arange: the claims                                                      *)
(***************************************************************************)
\* The bound of the loop for the direction of the step.
InBound(v) == IF args.step > 0 THEN v < args.stop ELSE v > args.stop

\* C1: for every i32 start, stop and nonzero step, arange returns exactly
\* start, start+step, start+2*step, ... within the bound: a result is returned,
\* each element pushed satisfies the bound and is its predecessor plus step
\* (in the integers), the first is start, and the sequence returned is
\* maximal: empty only when start fails the bound, and otherwise its last
\* element plus step fails the bound.
C1_ArangeSequence ==
  (fn = "arange" /\ args.step # 0) =>
    /\ pc # "panic_overflow"
    /\ \A k \in 1..Len(values) :
         /\ InBound(values[k])
         /\ k = 1 => values[k] = args.start
         /\ k > 1 => /\ ~Overflows(values[k - 1], args.step)
                     /\ values[k] = values[k - 1] + args.step
    /\ pc = "done" =>
         IF values = <<>> THEN ~InBound(args.start)
         ELSE \/ Overflows(values[Len(values)], args.step)
              \/ ~InBound(values[Len(values)] + args.step)

\* C2: arange with step = 0 panics before anything is generated: once past
\* the entry the call is in the zero-step panic, never in the loop and never
\* returned, and no element has been pushed.
C2_ZeroStepPanics ==
  (fn = "arange" /\ args.step = 0 /\ pc # "entry") =>
    pc = "panic_zero_step" /\ values = <<>>

C2_Witness == fn = "arange" /\ args.step = 0 /\ pc = "panic_zero_step"

\* The running value has wrapped around: it lies on the wrong side of the
\* element pushed last.
Wrapped ==
  /\ values # <<>>
  /\ IF args.step > 0 THEN current < values[Len(values)]
                      ELSE current > values[Len(values)]

\* C10: with a nonzero step the loop of arange always comes to its end with
\* a result: `current += step` never fails, and the running value never wraps
\* around to a value that satisfies the loop bound again.
C10_ArangeTerminates ==
  (fn = "arange" /\ args.step # 0) =>
    /\ pc # "panic_overflow"
    /\ ~(pc = "loop" /\ Wrapped /\ InBound(current))

\* C1 and C10 hold of the calls in which no `current += step` overflows.
ArangeWithoutOverflow ==
  (fn = "arange" /\ args.step # 0
     /\ \A k \in 1..Len(values) : ~Overflows(values[k], args.step)) =>
    /\ \A k \in 1..Len(values) :
         /\ InBound(values[k])
         /\ k = 1 => values[k] = args.start
         /\ k > 1 => values[k] = values[k - 1] + args.step
    /\ pc = "done" =>
         IF values = <<>> THEN ~InBound(args.start)
         ELSE ~InBound(values[Len(values)] + args.step)
    /\ ~(pc = "loop" /\ Wrapped)

(***************************************************************************)
(* reverse and concatenate: the claims                                     *)
(***************************************************************************)
\* What C8 says of the results of reverse(x) and of reverse(reverse(x)).
C8_Results ==
  fn = "reverse" =>
    /\ pc \in {"done", "done2"} =>
         /\ Len(values) = Len(args.arr1)
         /\ \A i \in 1..Len(values) : values[i] = args.arr1[Len(args.arr1) + 1 - i]
         /\ args.arr1 = <<>> => values = <<>>
         /\ Len(args.arr1) = 1 => values = args.arr1
    /\ pc = "done2" => current = args.arr1

\* C8: reverse(x) is a new sequence of the length of x whose element at
\* position i is x's element at position len(x)-1-i, and x is left unchanged
\* by every step; reverse(reverse(x)) = x, reverse([]) = [], and a
\* single-element input yields an equal output.
C8_Reverse == [][args' = args /\ C8_Results']_vars

C8_Witness ==
  /\ fn = "reverse" /\ pc = "done2"
  /\ Len(args.arr1) = 3 /\ values # args.arr1 /\ current = args.arr1

\* What C9 says of the results of concatenate(a, b) and of both nestings
\* with c.
C9_Results ==
  fn = "concatenate" =>
    /\ pc = "done" =>
         /\ Len(values) = Len(args.arr1) + Len(args.arr2)
         /\ \A i \in 1..Len(args.arr1) : values[i] = args.arr1[i]
         /\ \A j \in 1..Len(args.arr2) : values[Len(args.arr1) + j] = args.arr2[j]
         /\ args.arr2 = <<>> => values = args.arr1
         /\ args.arr1 = <<>> => values = args.arr2
    /\ pc = "done2" => values = current

\* C9: concatenate(a, b) has length len(a)+len(b) and holds the elements of
\* a followed by those of b in their order, and no step changes an input;
\* concatenate(a, []) = a, concatenate([], b) = b, and
\* concatenate(concatenate(a,b),c) = concatenate(a,concatenate(b,c)).
C9_Concatenate == [][args' = args /\ C9_Results']_vars

C9_Witness ==
  /\ fn = "concatenate" /\ pc = "done2"
  /\ args.arr1 # <<>> /\ args.arr2 # <<>> /\ args.arr3 # <<>>
  /\ args.arr1 # args.arr2
  /\ Len(values) = Len(args.arr1) + Len(args.arr2) + Len(args.arr3)

(***************************************************************************)
(* linspace and linspace_repeated: the claims                              *)
(***************************************************************************)
\* The arguments as f64.
StartF == to_f64(args.start)
StopF == to_f64(args.stop)

\* x = a + k*(b-a)/parts in the rationals, for finite a, b and parts > 0.
OnTarget(x, a, b, k, parts) ==
  /\ IsFinite(x)
  /\ x.n * (a.d * b.d * parts)
       = (a.n * b.d * parts + k * (b.n * a.d - a.n * b.d)) * x.d

\* |x - (a + k*(b-a)/parts)| <= 4 * k * 2^-Precision * max(|a|, |b|) in the
\* rationals: the rounding k additions of a rounded step can accumulate.
WithinTolerance(x, a, b, k, parts) ==
  LET den == a.d * b.d * parts
      num == a.n * b.d * parts + k * (b.n * a.d - a.n * b.d)
      aBigger == Abs(a.n) * b.d >= Abs(b.n) * a.d
      maxN == IF aBigger THEN Abs(a.n) ELSE Abs(b.n)
      maxD == IF aBigger THEN a.d ELSE b.d
  IN  /\ IsFinite(x)
      /\ Abs(x.n * den - num * x.d) * Pow2(Precision) * maxD
           <= 4 * k * maxN * x.d * den

LinspaceInclusiveDone ==
  fn = "linspace" /\ pc = "done" /\ args.include_end /\ args.samples >= 2

LinspaceExclusiveDone ==
  fn = "linspace" /\ pc = "done" /\ ~args.include_end /\ args.samples >= 1

ToleranceReachesStop(a, b, k, parts) ==
  LET aBigger == Abs(a.n) * b.d >= Abs(b.n) * a.d
      maxN == IF aBigger THEN Abs(a.n) ELSE Abs(b.n)
      maxD == IF aBigger THEN a.d ELSE b.d
  IN  4 * k * maxN * (a.d * b.d * parts)
        >= (parts - k) * Abs(b.n * a.d - a.n * b.d) * Pow2(Precision) * maxD

LinspaceRepeatedDone == fn = "linspace_repeated" /\ pc = "done"

\* linspace(a, b, n, true) for the arguments of the call of linspace_repeated.
InclusiveOfArgs == linspace(args.start, args.stop, args.samples, TRUE).values

C6_ZeroCountEmpty ==
  /\ (fn = "linspace" /\ pc = "done" /\ args.samples = 0) =>
       values = <<>> /\ step = Unevaluated
  /\ (LinspaceRepeatedDone /\ (args.samples = 0 \/ args.repeats = 0)) =>
       values = <<>> /\ step = Unevaluated

C6_Witness ==
  /\ LinspaceRepeatedDone
  /\ args.samples > 0 /\ args.repeats = 0 /\ args.start # args.stop
  /\ values = <<>>

\* C7: linspace(a, b, 1, true) returns exactly one element, the overwritten
\* last one (so [a] when b = a), and returns it although the step formula has
\* divided by samples - 1 = 0: the step is infinite or NaN, not an error.
C7_SingleSampleInclusive ==
  (fn = "linspace" /\ pc = "done" /\ args.include_end /\ args.samples = 1) =>
    /\ Len(values) = 1
    /\ values[1] = StopF
    /\ StartF = StopF => values = <<StartF>>
    /\ step = (IF StartF = StopF THEN NaN
               ELSE Inf(IF StopF.n * StartF.d > StartF.n * StopF.d THEN 1 ELSE -1))

C7_Witness ==
  /\ fn = "linspace" /\ pc = "done" /\ args.include_end /\ args.samples = 1
  /\ args.start = args.stop /\ args.start = Fin(5, 1)
  /\ values = <<Fin(5, 1)>> /\ step = NaN

\* The tests of the crate for linspace and linspace_repeated.
F(n, d) == Fin(n, d)
CrateTests ==
  /\ linspace(F(0,1), F(10,1), 5, TRUE).values = <<F(0,1), F(5,2), F(5,1), F(15,2), F(10,1)>>
  /\ linspace(F(0,1), F(10,1), 5, FALSE).values = <<F(0,1), F(2,1), F(4,1), F(6,1), F(8,1)>>
  /\ linspace(F(3,2), F(3,1), 4, TRUE).values = <<F(3,2), F(2,1), F(5,2), F(3,1)>>
  /\ linspace(F(3,2), F(3,1), 4, FALSE).values = <<F(3,2), F(15,8), F(9,4), F(21,8)>>
  /\ linspace(F(0,1), F(10,1), 0, TRUE).values = <<>>
  /\ linspace(F(5,1), F(5,1), 1, TRUE).values = <<F(5,1)>>
  /\ LET r == linspace(F(0,1), F(1,1), 10, TRUE).values
     IN  Len(r) = 10 /\ r[1] = F(0,1) /\ r[10] = F(1,1)
  /\ linspace_repeated(F(0,1), F(10,1), 5, 2).values
       = <<F(0,1), F(5,2), F(5,1), F(15,2), F(10,1), F(0,1), F(5,2), F(5,1), F(15,2), F(10,1)>>
  /\ linspace_repeated(F(0,1), F(5,1), 6, 1).values
       = <<F(0,1), F(1,1), F(2,1), F(3,1), F(4,1), F(5,1)>>
  /\ linspace_repeated(F(0,1), F(10,1), 5, 0).values = <<>>
  /\ linspace_repeated(F(0,1), F(10,1), 0, 5).values = <<>>

=============================================================================
